---- MODULE Spec2Model ----
(***************************************************************************)
(* A model of the Vivint integration (custom_components/vivint):           *)
(*   - the camera motion binary sensor and its cool-down timer             *)
(*     (binary_sensor.py, VivintCameraBinarySensorEntity),                 *)
(*   - the hub's login / verify_mfa / disconnect (hub.py, VivintHub),      *)
(*   - the binary-sensor platform setup and the device-class table         *)
(*     (binary_sensor.py, async_setup_entry, VivintBinarySensorEntity),    *)
(*   - the camera's stream source and still image (camera.py, VivintCam).  *)
(* Each part has a specification of its own over the module's variables;   *)
(* the variables of the other parts stay at their initial values.          *)
(***************************************************************************)
EXTENDS Integers, Sequences, FiniteSets, TLC

VARIABLES
    \* ---- camera motion binary sensor
    now,                      \* utcnow(), in seconds
    last_motion_event,        \* self._last_motion_event
    motion_stopped_callback,  \* self._motion_stopped_callback: a timer's id
    timers,                   \* the loop's pending async_call_later timers
    tasks,                    \* fired timers whose coroutine has not run yet
    subscribed,               \* device.on(MOTION_DETECTED, ...) is in place
    pc,                       \* the entity's position in its removal
    ha_state,                 \* what async_write_ha_state last wrote
    last_step,                \* the handler that ran last
    motion_at,                \* when the most recent motion event arrived
    \* ---- hub
    logged_in,                \* self.logged_in
    session,                  \* self.session: "none", "open" or "closed"
    account,                  \* self.account: "none", "connected", "disconnected"
    cache_file,               \* the file at self.cache_file: the call that wrote it
    undo_listener,            \* self.__undo_listener is set
    undo_calls,               \* how often the undo listener has been invoked
    calls,                    \* the hub calls made so far
    last_call,                \* the last hub call and how it ended
    \* ---- binary-sensor platform setup
    panels,                   \* the alarm panels of hub.account.systems, in order
    entities,                 \* what async_add_entities has been given, in order
    setup_pc,                 \* "start", "done" or "unloaded"
    dispatcher_connected,     \* async_add_sensor is connected to the dispatcher
    added,                    \* devices announced after setup
    announced,                \* the device announced last
    \* ---- generic binary sensor
    sensor,                   \* the wireless sensor of the entity
    device_class_read,        \* what the device_class property returned
    \* ---- camera
    hd_stream,                \* self.__hd_stream
    rtsp_stream,              \* self.__rtsp_stream
    direct_available,         \* the device has a direct RTSP URL
    relay_available,          \* the device has relay RTSP URLs
    stream_source_cache,      \* self.__stream_source
    last_image,               \* self.__last_image
    captured,                 \* the image of the last capture that succeeded
    cam_call,                 \* the last camera call and how it ended
    first_source              \* what the first stream_source call to return gave

motionVars == <<now, last_motion_event, motion_stopped_callback, timers, tasks,
                subscribed, pc, ha_state, last_step, motion_at>>

hubVars == <<logged_in, session, account, cache_file, undo_listener,
             undo_calls, calls, last_call>>

setupVars == <<panels, entities, setup_pc, dispatcher_connected, added,
               announced>>

sensorVars == <<sensor, device_class_read>>

camVars == <<hd_stream, rtsp_stream, direct_available, relay_available,
             stream_source_cache, last_image, captured, cam_call,
             first_source>>

vars == <<motionVars, hubVars, setupVars, sensorVars, camVars>>

nonMotionVars == <<hubVars, setupVars, sensorVars, camVars>>
nonHubVars == <<motionVars, setupVars, sensorVars, camVars>>
nonSetupVars == <<motionVars, hubVars, sensorVars, camVars>>
nonSensorVars == <<motionVars, hubVars, setupVars, camVars>>
nonCamVars == <<motionVars, hubVars, setupVars, sensorVars>>

\* Python's None, where the other values are numbers
None == -1

(***************************************************************************)
(* Camera motion binary sensor                                             *)
(***************************************************************************)
MOTION_STOPPED_SECONDS == 30

\* The clock stops here.
MaxTime == 62
\* At most this many timers (pending, fired or referenced) at a time.
MaxTimers == 3

TimerIds == 1..MaxTimers

\* utcnow() - timedelta(seconds=30)
IS_ON_WINDOW == 30

is_on ==
    /\ last_motion_event # None
    /\ last_motion_event >= now - IS_ON_WINDOW

PendingIds == {t.id : t \in timers}

IdsInUse == PendingIds \cup tasks \cup ({motion_stopped_callback} \ {None})

\* The handle async_call_later returns: one no other timer holds.
FreshTimerId == CHOOSE i \in TimerIds \ IdsInUse :
                    \A j \in TimerIds \ IdsInUse : i <= j

\* Calling the handle cancels the timer if it is still pending; a timer that
\* has fired is not affected, nor is the coroutine it started.
CancelTimer(ts, id) == {t \in ts : t.id # id}

\* async_cancel_motion_stopped_callback, as the timers it leaves pending
async_cancel_motion_stopped_callback(ts) ==
    IF motion_stopped_callback # None
        THEN CancelTimer(ts, motion_stopped_callback)
        ELSE ts

\* async_write_ha_state() with the given timestamp
WrittenState(last) ==
    IF last # None /\ last >= now - IS_ON_WINDOW THEN "on" ELSE "off"

InitMotion ==
    /\ now = 0
    /\ last_motion_event = None
    /\ motion_stopped_callback = None
    /\ timers = {}
    /\ tasks = {}
    /\ subscribed = TRUE
    /\ pc = "added"
    /\ ha_state = "off"
    /\ last_step = "init"
    /\ motion_at = None

\* _motion_callback: the device emits MOTION_DETECTED
MotionCallback ==
    /\ subscribed
    /\ TimerIds \ IdsInUse # {}
    /\ LET id == FreshTimerId
           kept == async_cancel_motion_stopped_callback(timers)
       IN  /\ last_motion_event' = now
           /\ ha_state' = WrittenState(now)
           /\ timers' = kept \cup {[id |-> id, due |-> now + MOTION_STOPPED_SECONDS]}
           /\ motion_stopped_callback' = id
    /\ motion_at' = now
    /\ last_step' = "motion"
    /\ UNCHANGED <<now, tasks, subscribed, pc>>
    /\ UNCHANGED nonMotionVars

\* The loop reaches a timer's due time: async_call_later starts the coroutine
\* async_motion_stopped_callback as a task, which runs in a later iteration.
TimerExpires ==
    \E t \in timers :
        /\ t.due <= now
        /\ timers' = timers \ {t}
        /\ tasks' = tasks \cup {t.id}
        /\ last_step' = "expired"
        /\ UNCHANGED <<now, last_motion_event, motion_stopped_callback,
                       subscribed, pc, ha_state, motion_at>>
        /\ UNCHANGED nonMotionVars

\* async_motion_stopped_callback
MotionStoppedCallback ==
    \E id \in tasks :
        /\ tasks' = tasks \ {id}
        /\ motion_stopped_callback' = None
        /\ last_motion_event' = None
        /\ ha_state' = WrittenState(None)
        /\ last_step' = "stopped"
        /\ UNCHANGED <<now, timers, subscribed, pc, motion_at>>
        /\ UNCHANGED nonMotionVars

\* The entity is removed: the host first runs the callbacks registered with
\* async_on_remove, which ends the MOTION_DETECTED subscription ...
RunOnRemove ==
    /\ pc = "added"
    /\ pc' = "will_remove"
    /\ subscribed' = FALSE
    /\ last_step' = "on_remove"
    /\ UNCHANGED <<now, last_motion_event, motion_stopped_callback, timers,
                   tasks, ha_state, motion_at>>
    /\ UNCHANGED nonMotionVars

\* ... then awaits async_will_remove_from_hass: the parent's teardown ...
AwaitParentRemove ==
    /\ pc = "will_remove"
    /\ pc' = "cancel"
    /\ last_step' = "parent_removed"
    /\ UNCHANGED <<now, last_motion_event, motion_stopped_callback, timers,
                   tasks, subscribed, ha_state, motion_at>>
    /\ UNCHANGED nonMotionVars

\* ... and the cancellation of the cool-down timer.
CancelOnRemove ==
    /\ pc = "cancel"
    /\ timers' = async_cancel_motion_stopped_callback(timers)
    /\ motion_stopped_callback' = None
    /\ pc' = "removed"
    /\ last_step' = "removed"
    /\ UNCHANGED <<now, last_motion_event, tasks, subscribed, ha_state,
                   motion_at>>
    /\ UNCHANGED nonMotionVars

\* A second passes. The loop runs what is due before the next second starts.
Tick ==
    /\ now < MaxTime
    /\ tasks = {}
    /\ \A t \in timers : t.due > now
    /\ now' = now + 1
    /\ last_step' = "tick"
    /\ UNCHANGED <<last_motion_event, motion_stopped_callback, timers, tasks,
                   subscribed, pc, ha_state, motion_at>>
    /\ UNCHANGED nonMotionVars

(***************************************************************************)
(* Hub                                                                     *)
(***************************************************************************)
\* The hub calls (login, verify_mfa, disconnect) stop here.
MaxCalls == 4

\* No file at self.cache_file
Absent == -1
\* A cache file an earlier run left behind
EarlierRun == 0

\* How account.connect() ends: it returns, or raises
\* VivintSkyApiMfaRequiredError, VivintSkyApiAuthenticationError, or one of
\* VivintSkyApiError, ClientResponseError, ClientConnectorError.
ConnectResults == {"ok", "mfa_required", "authentication", "connection"}

InitHub ==
    /\ logged_in = FALSE
    /\ session = "none"
    /\ account = "none"
    /\ cache_file \in {Absent, EarlierRun}
    /\ undo_listener \in BOOLEAN
    /\ undo_calls = 0
    /\ calls = 0
    /\ last_call = [op |-> "init", result |-> "ok"]

\* login, ended by the mutation that forgets to reset logged_in
LoginKeepsLoggedIn ==
    /\ calls < MaxCalls
    /\ \E res \in ConnectResults :
        /\ session' = "open"
        /\ IF res = "ok"
              THEN /\ account' = "connected"
                   /\ cache_file' = calls + 1
                   /\ logged_in' = TRUE
              ELSE /\ account' \in {"connected", "disconnected"}
                   /\ UNCHANGED <<cache_file, logged_in>>
        /\ last_call' = [op |-> "login", result |-> res]
    /\ calls' = calls + 1
    /\ UNCHANGED <<undo_listener, undo_calls>>
    /\ UNCHANGED nonHubVars

\* login: logged_in is reset, the cookie jar is loaded if it can be, a new
\* session and account are made and the account connects. When connect
\* returns, save_session writes the cookie jar and sets logged_in; when it
\* raises, the error is raised again. Whether an account whose connect raised
\* reports itself connected is the library's matter: either may be.
Login ==
    /\ calls < MaxCalls
    /\ \E res \in ConnectResults :
        /\ session' = "open"
        /\ IF res = "ok"
              THEN /\ account' = "connected"
                   /\ cache_file' = calls + 1
                   /\ logged_in' = TRUE
              ELSE /\ account' \in {"connected", "disconnected"}
                   /\ logged_in' = FALSE
                   /\ UNCHANGED cache_file
        /\ last_call' = [op |-> "login", result |-> res]
    /\ calls' = calls + 1
    /\ UNCHANGED <<undo_listener, undo_calls>>
    /\ UNCHANGED nonHubVars

\* verify_mfa: when account.verify_mfa returns, save_session; any error is
\* raised again (also the one of a hub that has no account yet).
VerifyMfa ==
    /\ calls < MaxCalls
    /\ \E res \in (IF account = "none" THEN {"error"} ELSE {"ok", "error"}) :
        /\ IF res = "ok"
              THEN /\ cache_file' = calls + 1
                   /\ logged_in' = TRUE
              ELSE UNCHANGED <<cache_file, logged_in>>
        /\ last_call' = [op |-> "verify_mfa", result |-> res]
    /\ calls' = calls + 1
    /\ UNCHANGED <<session, account, undo_listener, undo_calls>>
    /\ UNCHANGED nonHubVars

\* disconnect(remove_cache), on a hub that has logged in (it has an account
\* and a session). os.remove raises FileNotFoundError when there is no file,
\* and then the undo listener is not reached.
Disconnect ==
    /\ calls < MaxCalls
    /\ account # "none"
    /\ \E remove_cache \in BOOLEAN :
        /\ account' = "disconnected"
        /\ session' = "closed"
        /\ IF remove_cache /\ cache_file = Absent
              THEN /\ last_call' = [op |-> "disconnect",
                                    result |-> "FileNotFoundError"]
                   /\ UNCHANGED <<cache_file, undo_listener, undo_calls>>
              ELSE /\ cache_file' = IF remove_cache THEN Absent ELSE cache_file
                   /\ undo_calls' = IF undo_listener THEN undo_calls + 1
                                                     ELSE undo_calls
                   /\ undo_listener' = FALSE
                   /\ last_call' = [op |-> "disconnect", result |-> "ok"]
    /\ calls' = calls + 1
    /\ UNCHANGED logged_in
    /\ UNCHANGED nonHubVars


(***************************************************************************)
(* Binary-sensor platform setup                                            *)
(***************************************************************************)
\* The panels of all systems together hold at most this many devices ...
MaxDevices == 2
\* ... in at most this many panels,
MaxPanels == 2
\* and at most this many devices are announced after setup.
MaxAdded == 1

\* What the setup looks at in a device: its class, and whether it has the
\* attributes node_online and is_online.
Devices == [cls : {"WirelessSensor", "Camera", "Other"},
            node_online : BOOLEAN,
            is_online : BOOLEAN]

\* No device has been announced yet
NoDevice == [cls |-> "", node_online |-> FALSE, is_online |-> FALSE]

SeqsUpTo(S, n) == UNION {[1..k -> S] : k \in 0..n}

RECURSIVE Sum(_)
Sum(q) == IF q = <<>> THEN 0 ELSE Head(q) + Sum(Tail(q))

\* The numbers of devices of the panels
Shapes == {sh \in SeqsUpTo(0..MaxDevices, MaxPanels) : Sum(sh) <= MaxDevices}

\* The panels of the given sizes that hold the devices of flat, in order
Split(flat, sh) ==
    [p \in 1..Len(sh) |->
        SubSeq(flat, Sum(SubSeq(sh, 1, p - 1)) + 1, Sum(SubSeq(sh, 1, p)))]

\* An entity: its class, the device it wraps (panel and place, or 0 and the
\* number of the announcement) and, for the online sensor, its key
Entity(kind, dev, key) == [kind |-> kind, dev |-> dev, key |-> key]

\* The branches of the setup loop, with the two online keys tried in the
\* other order
ClassifyIsOnlineFirst(d, dev) ==
    IF d.cls = "WirelessSensor"
        THEN <<Entity("VivintBinarySensorEntity", dev, "")>>
    ELSE IF d.cls = "Camera"
        THEN <<Entity("VivintCameraBinarySensorEntity", dev, "")>>
    ELSE IF d.is_online
        THEN <<Entity("VivintOnlineBinarySensorEntity", dev, "is_online")>>
    ELSE IF d.node_online
        THEN <<Entity("VivintOnlineBinarySensorEntity", dev, "node_online")>>
    ELSE <<>>

\* The body of the setup loop: what one device appends to entities
Classify(d, dev) ==
    IF d.cls = "WirelessSensor"
        THEN <<Entity("VivintBinarySensorEntity", dev, "")>>
    ELSE IF d.cls = "Camera"
        THEN <<Entity("VivintCameraBinarySensorEntity", dev, "")>>
    ELSE IF d.node_online
        THEN <<Entity("VivintOnlineBinarySensorEntity", dev, "node_online")>>
    ELSE IF d.is_online
        THEN <<Entity("VivintOnlineBinarySensorEntity", dev, "is_online")>>
    ELSE <<>>

\* for device in alarm_panel.devices, from the i-th device on
RECURSIVE PanelEntities(_, _, _)
PanelEntities(ps, p, i) ==
    IF i > Len(ps[p]) THEN <<>>
    ELSE Classify(ps[p][i], <<p, i>>) \o PanelEntities(ps, p, i + 1)

\* for alarm_panel in ..., from the p-th panel on
RECURSIVE SetupEntities(_, _)
SetupEntities(ps, p) ==
    IF p > Len(ps) THEN <<>>
    ELSE PanelEntities(ps, p, 1) \o SetupEntities(ps, p + 1)

InitSetup ==
    /\ \E sh \in Shapes :
         \E flat \in [1..Sum(sh) -> Devices] : panels = Split(flat, sh)
    /\ entities = <<>>
    /\ setup_pc = "start"
    /\ dispatcher_connected = FALSE
    /\ added = 0
    /\ announced = NoDevice

\* async_setup_entry: the entities of the devices are collected; when there
\* are none the setup returns, otherwise it adds them and connects
\* async_add_sensor to the dispatcher.
AsyncSetupEntry ==
    /\ setup_pc = "start"
    /\ LET found == SetupEntities(panels, 1)
       IN  /\ entities' = found
           /\ dispatcher_connected' = (found # <<>>)
    /\ setup_pc' = "done"
    /\ UNCHANGED <<panels, added, announced>>
    /\ UNCHANGED nonSetupVars

\* async_add_sensor(device): the entities async_add_entities has been given
\* once it has run
AsyncAddSensor(d) ==
    entities \o
        (IF d.cls = "WirelessSensor"
            THEN <<Entity("VivintBinarySensorEntity", <<0, added + 1>>, "")>>
            ELSE <<>>)

\* The hub announces a device on the entry's channel once the platform has
\* been set up: async_add_sensor runs if it is connected to the channel, and
\* nothing receives the device otherwise.
DeviceAdded ==
    /\ setup_pc # "start"
    /\ added < MaxAdded
    /\ \E d \in Devices :
        /\ announced' = d
        /\ entities' = IF dispatcher_connected THEN AsyncAddSensor(d)
                                               ELSE entities
    /\ added' = added + 1
    /\ UNCHANGED <<panels, setup_pc, dispatcher_connected>>
    /\ UNCHANGED nonSetupVars

\* The config entry is unloaded: what async_on_unload was given runs
Unload ==
    /\ setup_pc = "done"
    /\ setup_pc' = "unloaded"
    /\ dispatcher_connected' = FALSE
    /\ UNCHANGED <<panels, entities, added, announced>>
    /\ UNCHANGED nonSetupVars

NextSetup ==
    \/ AsyncSetupEntry
    \/ DeviceAdded
    \/ Unload


(***************************************************************************)
(* Generic binary sensor: device_class                                     *)
(***************************************************************************)
\* vivintpy's EquipmentType: the five the property names, and two others
EquipmentTypes == {"MOTION", "FREEZE", "WATER", "TEMPERATURE", "CONTACT",
                   "EMERGENCY", "UNKNOWN"}

\* vivintpy's SensorType: the five the property names, and two others
SensorTypes == {"EXIT_ENTRY_1", "PERIMETER", "FIRE", "FIRE_WITH_VERIFICATION",
                "CARBON_MONOXIDE", "EXIT_ENTRY_2", "UNUSED"}

\* device.equipment_code.name: names of vivintpy's EquipmentCode, as
\* sequences of characters
TILT_SENSOR_2GIG_345 ==
    <<"T", "I", "L", "T", "_", "S", "E", "N", "S", "O", "R", "_", "2",
      "G", "I", "G", "_", "3", "4", "5">>

GB1_GLASS_BREAK ==
    <<"G", "B", "1", "_", "G", "L", "A", "S", "S", "_", "B", "R", "E",
      "A", "K">>

DW10_THIN_DOOR_WINDOW ==
    <<"D", "W", "1", "0", "_", "T", "H", "I", "N", "_", "D", "O", "O",
      "R", "_", "W", "I", "N", "D", "O", "W">>

SMKT2_GE_SMOKE_HEAT ==
    <<"S", "M", "K", "T", "2", "_", "G", "E", "_", "S", "M", "O", "K",
      "E", "_", "H", "E", "A", "T">>

PIR1_MOTION ==
    <<"P", "I", "R", "1", "_", "M", "O", "T", "I", "O", "N">>

CodeNames == {TILT_SENSOR_2GIG_345, GB1_GLASS_BREAK, DW10_THIN_DOOR_WINDOW, 
              SMKT2_GE_SMOKE_HEAT, PIR1_MOTION}

TILT == <<"T", "I", "L", "T">>

GLASS_BREAK == <<"G", "L", "A", "S", "S", "_", "B", "R", "E", "A", "K">>

\* word in name, of two Python strings
Contains(name, word) ==
    \E i \in 1..(Len(name) - Len(word) + 1) :
        SubSeq(name, i, i + Len(word) - 1) = word

Sensors == [equipment_type : EquipmentTypes,
            sensor_type : SensorTypes,
            code_name : CodeNames]

\* device_class, with the outer fallback also for an unlisted contact sensor
device_class_contact_safety(d) ==
    IF d.equipment_type = "MOTION" THEN "motion"
    ELSE IF d.equipment_type = "FREEZE" THEN "cold"
    ELSE IF d.equipment_type = "WATER" THEN "moisture"
    ELSE IF d.equipment_type = "TEMPERATURE" THEN "heat"
    ELSE IF d.equipment_type = "CONTACT" THEN
        IF d.sensor_type = "EXIT_ENTRY_1" THEN
            IF Contains(d.code_name, TILT) THEN "garage_door" ELSE "door"
        ELSE IF d.sensor_type = "PERIMETER" THEN
            IF Contains(d.code_name, GLASS_BREAK) THEN "safety" ELSE "window"
        ELSE IF d.sensor_type \in {"FIRE", "FIRE_WITH_VERIFICATION"} THEN "smoke"
        ELSE IF d.sensor_type = "CARBON_MONOXIDE" THEN "gas"
        ELSE "safety"
    ELSE "safety"

\* VivintBinarySensorEntity.device_class; "None" where the property ends
\* without a return
device_class(d) ==
    IF d.equipment_type = "MOTION" THEN "motion"
    ELSE IF d.equipment_type = "FREEZE" THEN "cold"
    ELSE IF d.equipment_type = "WATER" THEN "moisture"
    ELSE IF d.equipment_type = "TEMPERATURE" THEN "heat"
    ELSE IF d.equipment_type = "CONTACT" THEN
        IF d.sensor_type = "EXIT_ENTRY_1" THEN
            IF Contains(d.code_name, TILT) THEN "garage_door" ELSE "door"
        ELSE IF d.sensor_type = "PERIMETER" THEN
            IF Contains(d.code_name, GLASS_BREAK) THEN "safety" ELSE "window"
        ELSE IF d.sensor_type \in {"FIRE", "FIRE_WITH_VERIFICATION"} THEN "smoke"
        ELSE IF d.sensor_type = "CARBON_MONOXIDE" THEN "gas"
        ELSE "None"
    ELSE "safety"

InitSensor ==
    /\ sensor \in Sensors
    /\ device_class_read = "unread"

\* The host reads the entity's device_class
ReadDeviceClass ==
    /\ device_class_read = "unread"
    /\ device_class_read' = device_class(sensor)
    /\ UNCHANGED sensor
    /\ UNCHANGED nonSensorVars

NextSensor ==
    \/ ReadDeviceClass

(***************************************************************************)
(* Camera                                                                  *)
(***************************************************************************)
\* The images a capture can return are 1..NumImages.
NumImages == 2
\* The camera calls (stream_source, async_camera_image) stop here.
MaxCamCalls == 4

Images == 1..NumImages

\* self.__last_image = None
NoImage == 0

\* The values of the option rtsp_stream
RTSP_STREAM_DIRECT == "direct"
RTSP_STREAM_INTERNAL == "internal"
RTSP_STREAM_EXTERNAL == "external"

RtspStreams == {RTSP_STREAM_DIRECT, RTSP_STREAM_INTERNAL, RTSP_STREAM_EXTERNAL}

\* No URL: None or the empty string, which Python's "not" and "or" treat alike
NoUrl == <<>>

DirectUrl(hd) == <<"direct", hd>>

RelayUrl(internal, hd) == <<"relay", internal, hd>>

\* device.get_direct_rtsp_url(hd=hd), when it returns
get_direct_rtsp_url(hd) == IF direct_available THEN DirectUrl(hd) ELSE NoUrl

\* device.get_rtsp_url(internal=internal, hd=hd), when it returns
get_rtsp_url(internal, hd) ==
    IF relay_available THEN RelayUrl(internal, hd) ELSE NoUrl

\* The test of the cache that never finds it filled
CacheNeverFilled == FALSE

\* The negation of "if not self.__stream_source"
CacheFilled == stream_source_cache # NoUrl

\* The relay asked for with internal and external exchanged
RelayInternalInverted == rtsp_stream = RTSP_STREAM_EXTERNAL

\* internal=self.__rtsp_stream != RTSP_STREAM_EXTERNAL
RelayInternal == rtsp_stream # RTSP_STREAM_EXTERNAL

\* How a call of a device method ends: it returns, or it raises
DeviceErrors == {"none", "direct", "relay"}

SourceResult(url, raised, cache, queried) ==
    [url |-> url, raised |-> raised, cache |-> cache, queried |-> queried]

\* stream_source, when the device method named by err (if any) raises: what
\* it returns, whether it raises, the cache it leaves and whether it asked
\* the device
stream_source(err) ==
    IF CacheFilled
        THEN SourceResult(stream_source_cache, FALSE, stream_source_cache, FALSE)
    ELSE IF rtsp_stream = RTSP_STREAM_DIRECT /\ err = "direct"
        THEN SourceResult(NoUrl, TRUE, stream_source_cache, TRUE)
    ELSE LET direct == IF rtsp_stream = RTSP_STREAM_DIRECT
                          THEN get_direct_rtsp_url(hd_stream)
                          ELSE NoUrl
         IN  IF direct # NoUrl
                 THEN SourceResult(direct, FALSE, direct, TRUE)
             ELSE IF err = "relay"
                 THEN SourceResult(NoUrl, TRUE, stream_source_cache, TRUE)
             ELSE LET relay == get_rtsp_url(RelayInternal, hd_stream)
                  IN  SourceResult(relay, FALSE, relay, TRUE)

\* The first stream_source call that returns is remembered
FirstSource(r) ==
    IF first_source.returned \/ r.raised
        THEN first_source
        ELSE [returned |-> TRUE, url |-> r.url]

\* How async_get_image ends: it raises, or it returns an image or None;
\* without a URL it has nothing to take an image from
CaptureRaises == [raised |-> TRUE, image |-> NoImage]

CaptureReturns(image) == [raised |-> FALSE, image |-> image]

Captures(url) ==
    {CaptureRaises, CaptureReturns(NoImage)}
        \cup (IF url = NoUrl THEN {} ELSE {CaptureReturns(i) : i \in Images})

InitCamera ==
    /\ hd_stream \in BOOLEAN
    /\ rtsp_stream \in RtspStreams
    /\ direct_available \in BOOLEAN
    /\ relay_available \in BOOLEAN
    /\ stream_source_cache = NoUrl
    /\ last_image = NoImage
    /\ captured = NoImage
    /\ cam_call = [n |-> 0, op |-> "init", url |-> NoUrl, image |-> NoImage,
                   raised |-> FALSE, queried |-> FALSE]
    /\ first_source = [returned |-> FALSE, url |-> NoUrl]

\* The host asks for the stream source
StreamSource ==
    /\ cam_call.n < MaxCamCalls
    /\ \E err \in DeviceErrors :
        LET r == stream_source(err)
        IN  /\ stream_source_cache' = r.cache
            /\ first_source' = FirstSource(r)
            /\ cam_call' = [n |-> cam_call.n + 1,
                            op |-> "stream_source", url |-> r.url,
                            image |-> NoImage, raised |-> r.raised,
                            queried |-> r.queried]
    /\ UNCHANGED <<hd_stream, rtsp_stream, direct_available, relay_available,
                   last_image, captured>>
    /\ UNCHANGED nonCamVars

\* async_camera_image: the image of the stream source is stored, unless
\* stream_source or async_get_image raises; the stored image is returned
AsyncCameraImage ==
    /\ cam_call.n < MaxCamCalls
    /\ \E err \in DeviceErrors :
        LET r == stream_source(err)
        IN  /\ stream_source_cache' = r.cache
            /\ first_source' = FirstSource(r)
            /\ \E capture \in (IF r.raised THEN {CaptureRaises}
                                           ELSE Captures(r.url)) :
                /\ last_image' = IF capture.raised THEN last_image
                                                   ELSE capture.image
                /\ captured' = IF capture.raised \/ capture.image = NoImage
                                  THEN captured
                                  ELSE capture.image
                /\ cam_call' = [n |-> cam_call.n + 1,
                                op |-> "async_camera_image", url |-> r.url,
                                image |-> last_image', raised |-> FALSE,
                                queried |-> r.queried]
    /\ UNCHANGED <<hd_stream, rtsp_stream, direct_available, relay_available>>
    /\ UNCHANGED nonCamVars

NextCamera ==
    \/ StreamSource
    \/ AsyncCameraImage

NextHub ==
    \/ Login
    \/ VerifyMfa
    \/ Disconnect

NextMotion ==
    \/ MotionCallback
    \/ TimerExpires
    \/ MotionStoppedCallback
    \/ RunOnRemove
    \/ AwaitParentRemove
    \/ CancelOnRemove
    \/ Tick

(***************************************************************************)
(* Specifications: one per part, the other parts at rest                   *)
(***************************************************************************)
RestMotion == InitMotion

RestHub == InitHub /\ cache_file = Absent /\ undo_listener = FALSE

RestSetup ==
    /\ panels = <<>>
    /\ entities = <<>>
    /\ setup_pc = "start"
    /\ dispatcher_connected = FALSE
    /\ added = 0
    /\ announced = NoDevice

RestSensor ==
    /\ InitSensor
    /\ sensor = [equipment_type |-> "UNKNOWN", sensor_type |-> "UNUSED",
                 code_name |-> PIR1_MOTION]

RestCamera ==
    /\ InitCamera
    /\ hd_stream /\ rtsp_stream = RTSP_STREAM_DIRECT
    /\ direct_available /\ relay_available

InitMotionSpec ==
    InitMotion /\ RestHub /\ RestSetup /\ RestSensor /\ RestCamera

InitHubSpec ==
    InitHub /\ RestMotion /\ RestSetup /\ RestSensor /\ RestCamera

InitSetupSpec ==
    InitSetup /\ RestMotion /\ RestHub /\ RestSensor /\ RestCamera

InitSensorSpec ==
    InitSensor /\ RestMotion /\ RestHub /\ RestSetup /\ RestCamera

InitCameraSpec ==
    InitCamera /\ RestMotion /\ RestHub /\ RestSetup /\ RestSensor

SpecMotion == InitMotionSpec /\ [][NextMotion]_vars

SpecHub == InitHubSpec /\ [][NextHub]_vars

SpecSetup == InitSetupSpec /\ [][NextSetup]_vars

SpecSensor == InitSensorSpec /\ [][NextSensor]_vars

SpecCamera == InitCameraSpec /\ [][NextCamera]_vars

(***************************************************************************)
(* Claims about the camera motion binary sensor                            *)
(***************************************************************************)

\* C1: at most one cool-down timer is pending in every reachable state, and
\* right after a motion event exactly one is: the 30-second timer the event
\* scheduled, which the entity's handle names.
C1_AtMostOneTimerPending ==
    /\ Cardinality(timers) <= 1
    /\ last_step = "motion" =>
          timers = {[id |-> motion_stopped_callback,
                     due |-> now + MOTION_STOPPED_SECONDS]}

\* C2: while the entity is in place, is_on is true exactly while less than
\* 30 seconds have passed since the most recent motion event.
C2_IsOnWithinThirtySeconds ==
    pc = "added" =>
        (is_on <=> (motion_at # None
                    /\ now - motion_at < MOTION_STOPPED_SECONDS))

\* C10: once the teardown has completed no cool-down timer is pending and
\* the motion-stopped callback does not run on the removed entity.
C10_NoTimerAfterTeardown ==
    pc = "removed" => (timers = {} /\ last_step # "stopped")

(***************************************************************************)
(* Claims about the hub                                                    *)
(***************************************************************************)
HubCall(op) == calls' # calls /\ last_call'.op = op

\* C3: no disconnect call raises, a disconnect closes the connection and the
\* session only if they were open, and over all the calls the undo listener
\* is invoked at most once.
C3_DisconnectIdempotent ==
    [][HubCall("disconnect") =>
          /\ last_call'.result = "ok"
          /\ account' # account => account = "connected"
          /\ session' # session => session = "open"
          /\ undo_calls' <= 1]_vars

\* C4: a login or verify_mfa call writes the cache file and sets logged_in
\* exactly when its authentication succeeded; a failed login writes nothing
\* and leaves logged_in false, a failed verify_mfa changes neither.
C4_CacheWrittenIffAuthenticated ==
    [][HubCall("login") \/ HubCall("verify_mfa") =>
          IF last_call'.result = "ok"
             THEN cache_file' = calls' /\ logged_in'
             ELSE /\ cache_file' = cache_file
                  /\ HubCall("login") => ~logged_in'
                  /\ HubCall("verify_mfa") => logged_in' = logged_in]_vars

\* A login has failed on a hub whose earlier login had succeeded.
C4_FailedLoginAfterSuccess ==
    /\ last_call.op = "login"
    /\ last_call.result # "ok"
    /\ cache_file >= 1
    /\ ~logged_in

(***************************************************************************)
(* Claims about the binary-sensor platform setup                           *)
(***************************************************************************)
\* The entities of the device at place i of panel p
EntitiesOf(p, i) == SelectSeq(entities, LAMBDA e : e.dev = <<p, i>>)

\* The entity class the precedence gives a device, "" for none
KindByPrecedence(d) ==
    CASE d.cls = "WirelessSensor" -> "VivintBinarySensorEntity"
      [] d.cls = "Camera" -> "VivintCameraBinarySensorEntity"
      [] d.cls = "Other" /\ (d.node_online \/ d.is_online) ->
            "VivintOnlineBinarySensorEntity"
      [] OTHER -> ""

\* The key of the online sensor the precedence gives a device
KeyByPrecedence(d) ==
    CASE d.cls = "Other" /\ d.node_online -> "node_online"
      [] d.cls = "Other" /\ ~d.node_online /\ d.is_online -> "is_online"
      [] OTHER -> ""

\* C5: after setup every device of every panel has at most one entity, the
\* one the precedence wireless sensor, camera, node_online, is_online gives
\* it, whatever the other devices are.
C5_ClassifiedByPrecedence ==
    setup_pc # "start" =>
        \A p \in 1..Len(panels) : \A i \in 1..Len(panels[p]) :
            LET d == panels[p][i]
                es == EntitiesOf(p, i)
            IN  /\ Len(es) <= 1
                /\ (Len(es) = 0) <=> (KindByPrecedence(d) = "")
                /\ Len(es) = 1 =>
                      /\ es[1].kind = KindByPrecedence(d)
                      /\ es[1].key = KeyByPrecedence(d)

\* Setup has classified two devices, one of which has both online flags and
\* one of which is a wireless sensor that has them too.
C5_TwoDevicesClassified ==
    /\ setup_pc = "done"
    /\ Len(entities) = 2
    /\ \E p \in 1..Len(panels) : \E i \in 1..Len(panels[p]) :
          /\ panels[p][i] = [cls |-> "Other", node_online |-> TRUE,
                             is_online |-> TRUE]
          /\ EntitiesOf(p, i)[1].key = "node_online"
    /\ \E p \in 1..Len(panels) : \E i \in 1..Len(panels[p]) :
          /\ panels[p][i] = [cls |-> "WirelessSensor", node_online |-> TRUE,
                             is_online |-> TRUE]
          /\ EntitiesOf(p, i)[1].kind = "VivintBinarySensorEntity"

\* The hub has just announced a device
Announced == added' # added

\* C11: after setup, whatever devices it found, an announced device adds a
\* generic binary-sensor entity when it is a wireless sensor and no entity
\* otherwise, until the entry is unloaded; unloading removes the
\* subscription, and a device announced after it adds nothing.
C11_AnnouncedWirelessSensorAdded ==
    [][/\ Announced /\ setup_pc = "done" =>
            entities' = entities \o
                (IF announced'.cls = "WirelessSensor"
                    THEN <<Entity("VivintBinarySensorEntity",
                                  <<0, added'>>, "")>>
                    ELSE <<>>)
       /\ Announced /\ setup_pc = "unloaded" => entities' = entities
       /\ setup_pc' = "unloaded" => ~dispatcher_connected']_vars

(***************************************************************************)
(* Claims about the generic binary sensor                                  *)
(***************************************************************************)
\* The device-class table
ClassByTable(d) ==
    LET contact == d.equipment_type = "CONTACT"
    IN  CASE d.equipment_type = "MOTION" -> "motion"
          [] d.equipment_type = "FREEZE" -> "cold"
          [] d.equipment_type = "WATER" -> "moisture"
          [] d.equipment_type = "TEMPERATURE" -> "heat"
          [] contact /\ d.sensor_type = "EXIT_ENTRY_1"
                /\ Contains(d.code_name, TILT) -> "garage_door"
          [] contact /\ d.sensor_type = "EXIT_ENTRY_1"
                /\ ~Contains(d.code_name, TILT) -> "door"
          [] contact /\ d.sensor_type = "PERIMETER"
                /\ Contains(d.code_name, GLASS_BREAK) -> "safety"
          [] contact /\ d.sensor_type = "PERIMETER"
                /\ ~Contains(d.code_name, GLASS_BREAK) -> "window"
          [] contact /\ d.sensor_type = "FIRE" -> "smoke"
          [] contact /\ d.sensor_type = "FIRE_WITH_VERIFICATION" -> "smoke"
          [] contact /\ d.sensor_type = "CARBON_MONOXIDE" -> "gas"
          [] contact /\ d.sensor_type \in {"EXIT_ENTRY_2", "UNUSED"} -> "None"
          [] d.equipment_type \in {"EMERGENCY", "UNKNOWN"} -> "safety"

\* C6: device_class returns what the device-class table gives, and no class
\* for a contact sensor of a sensor type the table does not list.
C6_DeviceClassByTable ==
    device_class_read # "unread" => device_class_read = ClassByTable(sensor)

\* device_class has been read for a contact sensor of an unlisted sensor type.
C6_UnlistedContactRead ==
    /\ device_class_read = "None"
    /\ sensor.equipment_type = "CONTACT"
    /\ sensor.sensor_type = "EXIT_ENTRY_2"

(***************************************************************************)
(* Claims about the camera                                                 *)
(***************************************************************************)
\* A stream_source call, made directly or by async_camera_image, has
\* returned a URL
UrlReturned == cam_call.op # "init" /\ cam_call.url # NoUrl

\* C7, as claimed: the URL stream_source returns is the direct URL for
\* direct, the relay URL with internal = false for external and the relay
\* URL with internal = true for internal, of the configured quality.
C7_UrlByMode ==
    UrlReturned =>
        cam_call.url =
            CASE rtsp_stream = RTSP_STREAM_DIRECT -> DirectUrl(hd_stream)
              [] rtsp_stream = RTSP_STREAM_EXTERNAL -> RelayUrl(FALSE, hd_stream)
              [] rtsp_stream = RTSP_STREAM_INTERNAL -> RelayUrl(TRUE, hd_stream)

\* C7, amended: for direct it is the direct URL when the device has one, and
\* otherwise the relay URL with internal = true.
C7_UrlByModeWithFallback ==
    UrlReturned =>
        cam_call.url =
            CASE rtsp_stream = RTSP_STREAM_DIRECT /\ direct_available ->
                    DirectUrl(hd_stream)
              [] rtsp_stream = RTSP_STREAM_DIRECT /\ ~direct_available ->
                    RelayUrl(TRUE, hd_stream)
              [] rtsp_stream = RTSP_STREAM_EXTERNAL -> RelayUrl(FALSE, hd_stream)
              [] rtsp_stream = RTSP_STREAM_INTERNAL -> RelayUrl(TRUE, hd_stream)

\* stream_source has returned the relay URL of a camera set to direct.
C7_DirectFellBackToRelay ==
    /\ cam_call.op = "stream_source"
    /\ rtsp_stream = RTSP_STREAM_DIRECT
    /\ cam_call.url = RelayUrl(TRUE, hd_stream)

\* C8, as claimed: once a stream_source call has returned, whatever it
\* returned, every later call returns that value and does not ask the device.
C8_CachedWhateverReturned ==
    [][first_source.returned /\ cam_call'.n # cam_call.n =>
          /\ ~cam_call'.queried
          /\ cam_call'.url = first_source.url]_vars

\* C8, amended: once a stream_source call has returned a URL that is not
\* empty, the next call, and so every later one, returns that URL and does
\* not ask the device.
C8_CachedOnceUrlReturned ==
    [][UrlReturned /\ cam_call'.n # cam_call.n =>
          /\ ~cam_call'.queried
          /\ cam_call'.url = cam_call.url]_vars

\* A third call has been answered from the cache.
C8_AnsweredFromCache ==
    /\ cam_call.n >= 3
    /\ ~cam_call.queried
    /\ cam_call.url # NoUrl

\* C9: async_camera_image does not raise and returns the image of the most
\* recent capture that succeeded (none before the first), which is also the
\* image the adapter stores: a failed call leaves it unchanged.
C9_ImageOfLastSuccessfulCapture ==
    /\ last_image = captured
    /\ cam_call.op = "async_camera_image" =>
          /\ ~cam_call.raised
          /\ cam_call.image = captured

====
